---- MODULE Spec2Model ----
(***************************************************************************)
(* ReviewHub: the review mutation handlers (POST / PUT / DELETE of         *)
(* /api/reviews), the recomputation of an item's aggregate                 *)
(* (updateItemRating) and the item handlers (POST / PUT / DELETE of        *)
(* /api/items), over the two tables `items` and `reviews`.                 *)
(*                                                                         *)
(* Every `await db...` of a handler is one atomic step: the store executes *)
(* the statement, and the handler runs its synchronous code up to the next *)
(* statement it issues, or up to its response.  The first step of a        *)
(* handler also holds the code that comes before its first statement.      *)
(* Handlers of different requests interleave at the awaits.                *)
(***************************************************************************)
EXTENDS Integers, Sequences, FiniteSets, TLC

VARIABLES items, reviews, nextItemId, nextReviewId, now, fkEnforced,
          req, started, last

vars == <<items, reviews, nextItemId, nextReviewId, now, fkEnforced,
          req, started, last>>

(***************************************************************************)
(* Bounds of the model.                                                    *)
(***************************************************************************)
\* Requests ever started in one behaviour (each runs in its own handler).
MaxRequests == 3
\* Ticks of the wall clock read by `new Date()`.
MaxTime == 1

Procs == 1..MaxRequests

(***************************************************************************)
(* JavaScript values of a request body / query string.  A number is kept   *)
(* in tenths (45 is 4.5); a string is the sequence of its characters.      *)
(***************************************************************************)
Undefined == [t |-> "undefined", n |-> 0, s |-> <<>>]
Null == [t |-> "null", n |-> 0, s |-> <<>>]
Num(tenths) == [t |-> "number", n |-> tenths, s |-> <<>>]
Str(chars) == [t |-> "string", n |-> 0, s |-> chars]

Digits == <<"0", "1", "2", "3", "4", "5", "6", "7", "8", "9">>

IsDigit(c) == \E d \in 1..10 : Digits[d] = c

DigitVal(c) == (CHOOSE d \in 1..10 : Digits[d] = c) - 1

RECURSIVE NatToChars(_)
NatToChars(k) ==
    IF k < 10 THEN <<Digits[k + 1]>>
    ELSE NatToChars(k \div 10) \o <<Digits[(k % 10) + 1]>>

Abs(k) == IF k < 0 THEN -k ELSE k

\* Number.prototype.toString of a number given in tenths.
NumToChars(tenths) ==
    (IF tenths < 0 THEN <<"-">> ELSE <<>>)
    \o NatToChars(Abs(tenths) \div 10)
    \o (IF Abs(tenths) % 10 = 0 THEN <<>> ELSE <<".", Digits[(Abs(tenths) % 10) + 1]>>)

\* String(v), the conversion parseInt and parseFloat apply to their argument.
ToChars(v) ==
    CASE v.t = "undefined" -> <<"u", "n", "d", "e", "f", "i", "n", "e", "d">>
      [] v.t = "null" -> <<"n", "u", "l", "l">>
      [] v.t = "number" -> NumToChars(v.n)
      [] OTHER -> v.s

RECURSIVE SkipSpaces(_)
SkipSpaces(cs) ==
    IF cs # <<>> /\ Head(cs) = " " THEN SkipSpaces(Tail(cs)) ELSE cs

RECURSIVE DropTrailingSpaces(_)
DropTrailingSpaces(cs) ==
    IF cs # <<>> /\ cs[Len(cs)] = " "
    THEN DropTrailingSpaces(SubSeq(cs, 1, Len(cs) - 1))
    ELSE cs

\* String.prototype.trim
Trim(cs) == DropTrailingSpaces(SkipSpaces(cs))

\* The longest prefix of digits of cs.
RECURSIVE LeadingDigits(_)
LeadingDigits(cs) ==
    IF cs # <<>> /\ IsDigit(Head(cs))
    THEN <<Head(cs)>> \o LeadingDigits(Tail(cs))
    ELSE <<>>

RECURSIVE DigitsValue(_, _)
DigitsValue(ds, acc) ==
    IF ds = <<>> THEN acc
    ELSE DigitsValue(Tail(ds), 10 * acc + DigitVal(Head(ds)))

NaN == [nan |-> TRUE, n |-> 0]
Finite(k) == [nan |-> FALSE, n |-> k]

\* parseInt(chars): leading white space, an optional sign, then digits; NaN
\* when no digit follows.  What follows the digits is ignored.
ParseIntChars(cs) ==
    LET body == SkipSpaces(cs)
        neg == body # <<>> /\ Head(body) = "-"
        signed == body # <<>> /\ Head(body) \in {"-", "+"}
        rest == IF signed THEN Tail(body) ELSE body
        ds == LeadingDigits(rest)
    IN  IF ds = <<>> THEN NaN
        ELSE Finite(IF neg THEN -DigitsValue(ds, 0) ELSE DigitsValue(ds, 0))

parseInt(v) == ParseIntChars(ToChars(v))

\* parseFloat(chars), in tenths: as parseInt, with one optional decimal
\* digit after a point (the inputs carry at most one).
ParseFloatChars(cs) ==
    LET body == SkipSpaces(cs)
        neg == body # <<>> /\ Head(body) = "-"
        signed == body # <<>> /\ Head(body) \in {"-", "+"}
        rest == IF signed THEN Tail(body) ELSE body
        ds == LeadingDigits(rest)
        after == SubSeq(rest, Len(ds) + 1, Len(rest))
        frac == IF Len(after) >= 2 /\ after[1] = "." /\ IsDigit(after[2])
                THEN DigitVal(after[2]) ELSE 0
        mag == 10 * DigitsValue(ds, 0) + frac
    IN  IF ds = <<>> THEN NaN
        ELSE Finite(IF neg THEN -mag ELSE mag)

parseFloat(v) == ParseFloatChars(ToChars(v))

isNaN(r) == r.nan

\* !v
Falsy(v) ==
    \/ v.t \in {"undefined", "null"}
    \/ v.t = "number" /\ v.n = 0
    \/ v.t = "string" /\ v.s = <<>>

(***************************************************************************)
(* The store.  items and reviews are the two tables, each a function from  *)
(* the ids of its rows; ids come from the AUTOINCREMENT counters and are   *)
(* never reused.  averageRating is the double sum / count, kept as the     *)
(* fraction in lowest terms (two such quotients of small integers are the  *)
(* same double exactly when the fractions are equal).                      *)
(***************************************************************************)
RECURSIVE GCD(_, _)
GCD(a, b) == IF b = 0 THEN a ELSE GCD(b, a % b)

\* The number a / b (a >= 0, b > 0).
Frac(a, b) == [num |-> a \div GCD(a, b), den |-> b \div GCD(a, b)]

Zero == Frac(0, 1)

ReviewsOf(itemId) == {r \in DOMAIN reviews : reviews[r].itemId = itemId}

RECURSIVE SumRatings(_)
SumRatings(rs) ==
    IF rs = {} THEN 0
    ELSE LET r == CHOOSE x \in rs : TRUE
         IN  reviews[r].rating + SumRatings(rs \ {r})

\* averageRating as updateItemRating computes it from the rows it read.
\* The average without the guard on an empty list: 0 / 0, which is no number.
AverageOfUnguarded(sum, count) ==
    IF count > 0 THEN Frac(sum, count) ELSE [num |-> 0, den |-> 0]

AverageOf(sum, count) == IF count > 0 THEN Frac(sum, count) ELSE Zero

(***************************************************************************)
(* Handlers in flight.  Request number p runs in handler p; pc is the      *)
(* statement the handler has issued and the store has not yet executed.    *)
(***************************************************************************)
IdleReq ==
    [kind |-> "none", pc |-> "idle", itemId |-> 0, reviewId |-> 0,
     hasRating |-> FALSE, rating |-> 0, rawRating |-> Undefined,
     hasTitle |-> FALSE, title |-> <<>>,
     hasComment |-> FALSE, comment |-> Null,
     hasName |-> FALSE, name |-> <<>>,
     hasAverage |-> FALSE, average |-> Zero,
     hasTotal |-> FALSE, total |-> 0,
     userId |-> <<>>, ts |-> 0, rows |-> 0, solo |-> TRUE]

InFlight(p) == req[p].pc # "idle"

NoneInFlight == \A p \in Procs : ~InFlight(p)

\* The response a handler returned in the step just taken (NoResp when the
\* step returned none).
NoResp ==
    [proc |-> 0, kind |-> "none", status |-> 0, code |-> "",
     itemId |-> 0, reviewId |-> 0, solo |-> TRUE]

Resp(p, kind, status, code, itemId, reviewId, solo) ==
    [proc |-> p, kind |-> kind, status |-> status, code |-> code,
     itemId |-> itemId, reviewId |-> reviewId, solo |-> solo]

\* Request p arrives: it is the next request, and it overlaps every handler
\* in flight.
Arrives(p) == started < MaxRequests /\ p = started + 1

Overlapped(p, rec) ==
    [q \in Procs |->
        IF q = p THEN rec
        ELSE IF InFlight(q) THEN [req[q] EXCEPT !.solo = FALSE]
        ELSE req[q]]

\* Handler p returns resp at once, without touching the store.
Reject(p, kind, status, code, itemId, reviewId) ==
    /\ req' = Overlapped(p, IdleReq)
    /\ last' = Resp(p, kind, status, code, itemId, reviewId, NoneInFlight)
    /\ UNCHANGED started
    /\ UNCHANGED <<items, reviews, nextItemId, nextReviewId, now, fkEnforced>>

\* Handler p has issued its first writing statement: it is in flight as rec.
Accept(p, rec) ==
    /\ req' = Overlapped(p, [rec EXCEPT !.solo = NoneInFlight])
    /\ last' = NoResp
    /\ started' = started + 1
    /\ UNCHANGED <<items, reviews, nextItemId, nextReviewId, now, fkEnforced>>

\* Handler p goes on to its next statement.
Goto(p, rec) ==
    /\ req' = [req EXCEPT ![p] = rec]
    /\ last' = NoResp
    /\ UNCHANGED started

\* Handler p returns after its last statement.
Return(p, status, code) ==
    /\ req' = [req EXCEPT ![p] = IdleReq]
    /\ last' = Resp(p, req[p].kind, status, code, req[p].itemId,
                    req[p].reviewId, req[p].solo)
    /\ UNCHANGED started

(***************************************************************************)
(* Inputs of the requests: the values a body field or the id of the query  *)
(* string is drawn from.  The narrow sets hold what a client of the API    *)
(* sends when it follows the contract (ids that may or may not exist,      *)
(* well-formed fields); the wide sets add the malformed and the odd        *)
(* values.                                                                 *)
(***************************************************************************)
\* Ids a request may name: every id a row can have, and one beyond.
NamedIds == 1..MaxRequests

\* ?id= of PUT and DELETE (searchParams.get: a string, or null when absent)
IdInputs(wide) ==
    {Str(NatToChars(k)) : k \in NamedIds}
    \cup (IF wide THEN {Null, Str(<<"x">>)} ELSE {})

\* body.itemId of POST /api/reviews
ItemIdInputs(wide) ==
    {Num(10 * k) : k \in NamedIds}
    \cup (IF wide THEN {Undefined, Num(0), Num(-10), Str(<<"x">>)} ELSE {})

UserIdInputs(wide) ==
    {Str(<<" ", "u", " ">>)}
    \cup (IF wide THEN {Undefined, Str(<<" ">>), Num(10)} ELSE {})

\* body.rating of POST: 5; wide: absent, 0, 6, -1, "x", 4.5
PostRatingInputs(wide) ==
    {Num(50)}
    \cup (IF wide THEN {Undefined, Num(0), Num(60), Num(-10), Str(<<"x">>), Num(45)}
          ELSE {})

\* body.rating of PUT: absent, 2; wide: null, 0, 6, "x", 4.5
PutRatingInputs(wide) ==
    {Undefined, Num(20)}
    \cup (IF wide THEN {Null, Num(0), Num(60), Str(<<"x">>), Num(45)} ELSE {})

PostTitleInputs(wide) ==
    {Str(<<" ", "t">>)}
    \cup (IF wide THEN {Undefined, Str(<<>>), Str(<<" ">>)} ELSE {})

PutTitleInputs(wide) ==
    {Undefined, Str(<<"u", " ">>)}
    \cup (IF wide THEN {Str(<<>>), Str(<<" ">>), Num(10)} ELSE {})

PostCommentInputs(wide) ==
    {Undefined} \cup (IF wide THEN {Null} ELSE {})

PutCommentInputs(wide) ==
    {Undefined, Str(<<" ", "d">>)} \cup (IF wide THEN {Str(<<>>)} ELSE {})

(***************************************************************************)
(* Validation, as the handlers of /api/reviews write it.                   *)
(***************************************************************************)
IdInvalid(id) == Falsy(id) \/ isNaN(parseInt(id))

ItemIdInvalid(itemId) == Falsy(itemId) \/ isNaN(parseInt(itemId))

UserIdInvalid(userId) ==
    Falsy(userId) \/ userId.t # "string" \/ Trim(userId.s) = <<>>

\* The validation of POST's rating without its upper bound.
PostRatingInvalidNoUpper(rating) ==
    \/ Falsy(rating)
    \/ isNaN(parseInt(rating))
    \/ parseInt(rating).n < 1

PostRatingInvalid(rating) ==
    \/ Falsy(rating)
    \/ isNaN(parseInt(rating))
    \/ parseInt(rating).n < 1
    \/ parseInt(rating).n > 5

\* The validation of POST's title without the test of the trimmed string.
PostTitleInvalidUntrimmed(title) == Falsy(title) \/ title.t # "string"

PostTitleInvalid(title) ==
    Falsy(title) \/ title.t # "string" \/ Trim(title.s) = <<>>

PutRatingInvalid(rating) ==
    \/ isNaN(parseInt(rating))
    \/ parseInt(rating).n < 1
    \/ parseInt(rating).n > 5

PutTitleInvalid(title) == title.t # "string" \/ Trim(title.s) = <<>>

\* comment ? comment.trim() : null
CommentValue(comment) == IF Falsy(comment) THEN Null ELSE Str(Trim(comment.s))

\* A lookup that finds a row whatever the id.
ItemNeverMissing(id) == FALSE

\* db.select().from(items).where(eq(items.id, id)).limit(1) found no row
ItemMissing(id) == id \notin DOMAIN items

\* db.select().from(reviews).where(eq(reviews.id, id)).limit(1) found no row
ReviewMissing(id) == id \notin DOMAIN reviews

\* The foreign key reviews.item_id -> items.id, when the store enforces it:
\* a review row may not be inserted for an absent item, an item row may not
\* be deleted while a review row refers to it (ON DELETE no action).
InsertViolatesForeignKey(itemId) == fkEnforced /\ itemId \notin DOMAIN items

DeleteViolatesForeignKey(itemId) == fkEnforced /\ ReviewsOf(itemId) # {}

(***************************************************************************)
(* POST /api/reviews                                                       *)
(***************************************************************************)
\* Validation of the body and the lookup of the item.
ReviewPost_Lookup(p, wide) ==
    /\ Arrives(p)
    /\ \/ IF \E itemId \in ItemIdInputs(wide) : ItemIdInvalid(itemId)
          THEN Reject(p, "create", 400, "INVALID_ITEM_ID", 0, 0)
          ELSE FALSE
       \/ IF /\ \E itemId \in ItemIdInputs(wide) : ~ItemIdInvalid(itemId)
             /\ \E userId \in UserIdInputs(wide) : UserIdInvalid(userId)
          THEN Reject(p, "create", 400, "INVALID_USER_ID", 0, 0)
          ELSE FALSE
       \/ IF /\ \E itemId \in ItemIdInputs(wide) : ~ItemIdInvalid(itemId)
             /\ \E userId \in UserIdInputs(wide) : ~UserIdInvalid(userId)
             /\ \E rating \in PostRatingInputs(wide) : PostRatingInvalid(rating)
          THEN Reject(p, "create", 400, "INVALID_RATING", 0, 0)
          ELSE FALSE
       \/ IF /\ \E itemId \in ItemIdInputs(wide) : ~ItemIdInvalid(itemId)
             /\ \E userId \in UserIdInputs(wide) : ~UserIdInvalid(userId)
             /\ \E rating \in PostRatingInputs(wide) : ~PostRatingInvalid(rating)
             /\ \E title \in PostTitleInputs(wide) : PostTitleInvalid(title)
          THEN Reject(p, "create", 400, "MISSING_TITLE", 0, 0)
          ELSE FALSE
       \/ \E itemId \in {v \in ItemIdInputs(wide) : ~ItemIdInvalid(v)},
             userId \in {v \in UserIdInputs(wide) : ~UserIdInvalid(v)},
             rating \in {v \in PostRatingInputs(wide) : ~PostRatingInvalid(v)},
             title \in {v \in PostTitleInputs(wide) : ~PostTitleInvalid(v)} :
            /\ IF ItemMissing(parseInt(itemId).n)
               THEN Reject(p, "create", 404, "", parseInt(itemId).n, 0)
               ELSE \E comment \in PostCommentInputs(wide) :
                      Accept(p, [IdleReq EXCEPT
                                   !.kind = "create", !.pc = "insert",
                                   !.itemId = parseInt(itemId).n,
                                   !.userId = Trim(userId.s),
                                   !.hasRating = TRUE,
                                   !.rating = parseInt(rating).n,
                                   !.rawRating = rating,
                                   !.hasTitle = TRUE,
                                   !.title = Trim(title.s),
                                   !.hasComment = TRUE,
                                   !.comment = CommentValue(comment),
                                   !.ts = now])

\* The POST, had it called updateItemRating before its insert was executed.
ReviewPost_InsertDeferred(p) ==
    /\ req[p].pc = "insert"
    /\ Goto(p, [req[p] EXCEPT !.pc = "select", !.reviewId = nextReviewId])
    /\ UNCHANGED <<items, reviews, nextItemId, nextReviewId, now, fkEnforced>>

\* db.insert(reviews).values(...).returning()
ReviewPost_Insert(p) ==
    /\ req[p].pc = "insert"
    /\ IF InsertViolatesForeignKey(req[p].itemId)
       THEN /\ Return(p, 500, "")
            /\ UNCHANGED <<items, reviews, nextItemId, nextReviewId, now, fkEnforced>>
       ELSE /\ reviews' = (nextReviewId :>
                            [itemId |-> req[p].itemId, userId |-> req[p].userId,
                             rating |-> req[p].rating, title |-> req[p].title,
                             comment |-> req[p].comment,
                             createdAt |-> req[p].ts, updatedAt |-> req[p].ts])
                          @@ reviews
            /\ nextReviewId' = nextReviewId + 1
            /\ Goto(p, [req[p] EXCEPT !.pc = "select", !.reviewId = nextReviewId])
            /\ UNCHANGED <<items, nextItemId, now, fkEnforced>>

(***************************************************************************)
(* updateItemRating(itemId), called by the three handlers                  *)
(***************************************************************************)
\* The count kept incrementally: what the item stores, plus one for a Create
\* and minus one for a Delete, instead of the number of rows read.
UpdateItemRating_SelectStoredCount(p) ==
    /\ req[p].pc = "select"
    /\ LET itemReviews == ReviewsOf(req[p].itemId)
           stored == IF req[p].itemId \in DOMAIN items
                     THEN items[req[p].itemId].totalReviews ELSE 0
           step == CASE req[p].kind = "create" -> 1
                     [] req[p].kind = "delete" -> 0 - 1
                     [] OTHER -> 0
       IN  Goto(p, [req[p] EXCEPT !.pc = "write",
                        !.average = AverageOf(SumRatings(itemReviews),
                                              Cardinality(itemReviews)),
                        !.total = stored + step,
                        !.ts = now])
    /\ UNCHANGED <<items, reviews, nextItemId, nextReviewId, now, fkEnforced>>

\* The select without its where clause: the reviews of every item are read.
UpdateItemRating_SelectEveryReview(p) ==
    /\ req[p].pc = "select"
    /\ Goto(p, [req[p] EXCEPT !.pc = "write",
                    !.average = AverageOf(SumRatings(DOMAIN reviews),
                                          Cardinality(DOMAIN reviews)),
                    !.total = Cardinality(DOMAIN reviews),
                    !.ts = now])
    /\ UNCHANGED <<items, reviews, nextItemId, nextReviewId, now, fkEnforced>>

\* db.select().from(reviews).where(eq(reviews.itemId, itemId)), then the
\* average of the rows read and the time of the write.
UpdateItemRating_Select(p) ==
    /\ req[p].pc = "select"
    /\ LET itemReviews == ReviewsOf(req[p].itemId)
       IN  Goto(p, [req[p] EXCEPT !.pc = "write",
                        !.average = AverageOf(SumRatings(itemReviews),
                                              Cardinality(itemReviews)),
                        !.total = Cardinality(itemReviews),
                        !.ts = now])
    /\ UNCHANGED <<items, reviews, nextItemId, nextReviewId, now, fkEnforced>>

\* The response of the handler that called updateItemRating.
ResponseStatus(r) ==
    CASE r.kind = "create" -> {201}
      [] r.kind = "delete" -> IF r.rows = 0 THEN {500} ELSE {200}
      [] OTHER -> IF r.rows = 0 THEN {200, 500} ELSE {200}

\* The update of the items without its where clause: every item gets the
\* aggregate.
UpdateItemRating_UpdateEveryItem(p) ==
    /\ req[p].pc = "write"
    /\ items' = [i \in DOMAIN items |->
                    [items[i] EXCEPT !.averageRating = req[p].average,
                                     !.totalReviews = req[p].total,
                                     !.updatedAt = req[p].ts]]
    /\ \E status \in ResponseStatus(req[p]) : Return(p, status, "")
    /\ UNCHANGED <<reviews, nextItemId, nextReviewId, now, fkEnforced>>

\* The update of the item as an upsert: a row is made for an item the store
\* does not hold.
UpdateItemRating_Upsert(p) ==
    /\ req[p].pc = "write"
    /\ items' = [i \in DOMAIN items \cup {req[p].itemId} |->
                    IF i = req[p].itemId
                    THEN [name |-> <<>>, category |-> <<>>,
                          averageRating |-> req[p].average,
                          totalReviews |-> req[p].total,
                          createdAt |-> req[p].ts, updatedAt |-> req[p].ts]
                    ELSE items[i]]
    /\ \E status \in ResponseStatus(req[p]) : Return(p, status, "")
    /\ UNCHANGED <<reviews, nextItemId, nextReviewId, now, fkEnforced>>

\* The update of the item, had it added the count read to the count stored.
UpdateItemRating_UpdateAccumulating(p) ==
    /\ req[p].pc = "write"
    /\ items' = [i \in DOMAIN items |->
                    IF i = req[p].itemId
                    THEN [items[i] EXCEPT !.averageRating = req[p].average,
                                          !.totalReviews = @ + req[p].total,
                                          !.updatedAt = req[p].ts]
                    ELSE items[i]]
    /\ \E status \in ResponseStatus(req[p]) : Return(p, status, "")
    /\ UNCHANGED <<reviews, nextItemId, nextReviewId, now, fkEnforced>>

\* db.update(items).set({averageRating, totalReviews, updatedAt})
\*   .where(eq(items.id, itemId)), then the handler's response.
UpdateItemRating_Update(p) ==
    /\ req[p].pc = "write"
    /\ items' = [i \in DOMAIN items |->
                    IF i = req[p].itemId
                    THEN [items[i] EXCEPT !.averageRating = req[p].average,
                                          !.totalReviews = req[p].total,
                                          !.updatedAt = req[p].ts]
                    ELSE items[i]]
    /\ \E status \in ResponseStatus(req[p]) : Return(p, status, "")
    /\ UNCHANGED <<reviews, nextItemId, nextReviewId, now, fkEnforced>>

(***************************************************************************)
(* PUT /api/reviews?id=                                                    *)
(***************************************************************************)
\* Validation of the id, the lookup of the review, then the validation of
\* the supplied fields into `updates`.
ReviewPut_Select(p, wide) ==
    /\ Arrives(p)
    /\ \/ IF \E id \in IdInputs(wide) : IdInvalid(id)
          THEN Reject(p, "update", 400, "INVALID_ID", 0, 0)
          ELSE FALSE
       \/ \E id \in IdInputs(wide) :
            /\ ~IdInvalid(id)
            /\ ReviewMissing(parseInt(id).n)
            /\ Reject(p, "update", 404, "", 0, parseInt(id).n)
       \/ IF /\ \E id \in IdInputs(wide) : ~IdInvalid(id) /\ ~ReviewMissing(parseInt(id).n)
             /\ \E rating \in PutRatingInputs(wide) : rating # Undefined /\ PutRatingInvalid(rating)
          THEN Reject(p, "update", 400, "INVALID_RATING", 0, 0)
          ELSE FALSE
       \/ IF /\ \E id \in IdInputs(wide) : ~IdInvalid(id) /\ ~ReviewMissing(parseInt(id).n)
             /\ \E rating \in PutRatingInputs(wide) :
                   ~(rating # Undefined /\ PutRatingInvalid(rating))
             /\ \E title \in PutTitleInputs(wide) : title # Undefined /\ PutTitleInvalid(title)
          THEN Reject(p, "update", 400, "INVALID_TITLE", 0, 0)
          ELSE FALSE
       \/ \E id \in {v \in IdInputs(wide) :
                        ~IdInvalid(v) /\ ~ReviewMissing(parseInt(v).n)},
             rating \in {v \in PutRatingInputs(wide) :
                            ~(v # Undefined /\ PutRatingInvalid(v))},
             title \in {v \in PutTitleInputs(wide) :
                           ~(v # Undefined /\ PutTitleInvalid(v))},
             comment \in PutCommentInputs(wide) :
            /\ Accept(p, [IdleReq EXCEPT
                            !.kind = "update", !.pc = "update",
                            !.reviewId = parseInt(id).n,
                            !.itemId = reviews[parseInt(id).n].itemId,
                            !.hasRating = (rating # Undefined),
                            !.rating = IF rating # Undefined
                                       THEN parseInt(rating).n ELSE 0,
                            !.rawRating = rating,
                            !.hasTitle = (title # Undefined),
                            !.title = IF title # Undefined
                                      THEN Trim(title.s) ELSE <<>>,
                            !.hasComment = (comment # Undefined),
                            !.comment = CommentValue(comment),
                            !.ts = now])

\* The row, had `updates` also carried a userId taken from the body (a PUT
\* has none).
ApplyUpdatesWithUserId(row, r) ==
    [row EXCEPT !.rating = IF r.hasRating THEN r.rating ELSE @,
                !.title = IF r.hasTitle THEN r.title ELSE @,
                !.comment = IF r.hasComment THEN r.comment ELSE @,
                !.userId = r.userId,
                !.updatedAt = r.ts]

\* The row `updates` makes of a review row.
ApplyUpdates(row, r) ==
    [row EXCEPT !.rating = IF r.hasRating THEN r.rating ELSE @,
                !.title = IF r.hasTitle THEN r.title ELSE @,
                !.comment = IF r.hasComment THEN r.comment ELSE @,
                !.updatedAt = r.ts]

\* A PUT that never recomputes the aggregate.
RecomputesNever(r) == FALSE

\* A PUT that recomputes the aggregate whatever it was given.
RecomputesAlways(r) == TRUE

\* if (rating !== undefined) await updateItemRating(...)
Recomputes(r) == r.hasRating

\* db.update(reviews).set(updates).where(eq(reviews.id, id)).returning()
ReviewPut_Update(p) ==
    /\ req[p].pc = "update"
    /\ reviews' = [r \in DOMAIN reviews |->
                      IF r = req[p].reviewId
                      THEN ApplyUpdates(reviews[r], req[p])
                      ELSE reviews[r]]
    /\ LET rows == IF ReviewMissing(req[p].reviewId) THEN 0 ELSE 1
           next == [req[p] EXCEPT !.rows = rows]
       IN  IF Recomputes(req[p])
           THEN Goto(p, [next EXCEPT !.pc = "select"])
           ELSE \E status \in ResponseStatus(next) : Return(p, status, "")
    /\ UNCHANGED <<items, nextItemId, nextReviewId, now, fkEnforced>>

(***************************************************************************)
(* DELETE /api/reviews?id=                                                 *)
(***************************************************************************)
\* Validation of the id and the lookup of the review.
ReviewDelete_Select(p, wide) ==
    /\ Arrives(p)
    /\ \/ IF \E id \in IdInputs(wide) : IdInvalid(id)
          THEN Reject(p, "delete", 400, "INVALID_ID", 0, 0)
          ELSE FALSE
       \/ \E id \in IdInputs(wide) :
            /\ ~IdInvalid(id)
            /\ IF ReviewMissing(parseInt(id).n)
               THEN Reject(p, "delete", 404, "", 0, parseInt(id).n)
               ELSE Accept(p, [IdleReq EXCEPT
                                 !.kind = "delete", !.pc = "delete",
                                 !.reviewId = parseInt(id).n,
                                 !.itemId = reviews[parseInt(id).n].itemId])

\* The delete with its where clause on the item: every review of the item of
\* the review goes.
ReviewDelete_DeleteEveryReviewOfItem(p) ==
    /\ req[p].pc = "delete"
    /\ reviews' = [r \in DOMAIN reviews \ ReviewsOf(req[p].itemId) |-> reviews[r]]
    /\ Goto(p, [req[p] EXCEPT !.pc = "select",
                    !.rows = IF ReviewMissing(req[p].reviewId) THEN 0 ELSE 1])
    /\ UNCHANGED <<items, nextItemId, nextReviewId, now, fkEnforced>>

\* db.delete(reviews).where(eq(reviews.id, id)).returning()
ReviewDelete_Delete(p) ==
    /\ req[p].pc = "delete"
    /\ reviews' = [r \in DOMAIN reviews \ {req[p].reviewId} |-> reviews[r]]
    /\ Goto(p, [req[p] EXCEPT !.pc = "select",
                    !.rows = IF ReviewMissing(req[p].reviewId) THEN 0 ELSE 1])
    /\ UNCHANGED <<items, nextItemId, nextReviewId, now, fkEnforced>>

(***************************************************************************)
(* /api/items: POST, PUT ?id=, DELETE ?id=                                 *)
(***************************************************************************)
NameInputs(wide) ==
    {Str(<<" ", "n">>)} \cup (IF wide THEN {Undefined, Str(<<>>)} ELSE {})

PutNameInputs(wide) ==
    {Undefined, Str(<<"m", " ">>)} \cup (IF wide THEN {Str(<<" ">>)} ELSE {})

CategoryInputs(wide) ==
    {Str(<<"c">>)} \cup (IF wide THEN {Undefined} ELSE {})

PutCategoryInputs(wide) ==
    {Undefined} \cup (IF wide THEN {Str(<<" ">>)} ELSE {})

\* body.averageRating of PUT: absent, 3.5; wide: "x", 6
AverageRatingInputs(wide) ==
    {Undefined, Num(35)} \cup (IF wide THEN {Str(<<"x">>), Num(60)} ELSE {})

\* body.totalReviews of PUT: absent, 7; wide: -1
TotalReviewsInputs(wide) ==
    {Undefined, Num(70)} \cup (IF wide THEN {Num(-10)} ELSE {})

PostNameInvalid(name) == Falsy(name) \/ name.t # "string" \/ Trim(name.s) = <<>>

PutNameInvalid(name) == name.t # "string" \/ Trim(name.s) = <<>>

\* The validation of PUT's averageRating without its upper bound.
AverageRatingInvalidNoUpper(averageRating) ==
    \/ isNaN(parseFloat(averageRating))
    \/ parseFloat(averageRating).n < 0

AverageRatingInvalid(averageRating) ==
    \/ isNaN(parseFloat(averageRating))
    \/ parseFloat(averageRating).n < 0
    \/ parseFloat(averageRating).n > 50

TotalReviewsInvalid(totalReviews) ==
    isNaN(parseInt(totalReviews)) \/ parseInt(totalReviews).n < 0

\* The row, had POST /api/items taken the aggregate a body can carry (3.5
\* and 7) instead of 0 and 0.
NewItemWithBodyAggregate(name, category) ==
    [name |-> Trim(name.s), category |-> Trim(category.s),
     averageRating |-> Frac(35, 10), totalReviews |-> 7,
     createdAt |-> now, updatedAt |-> now]

\* The row POST /api/items inserts.
NewItem(name, category) ==
    [name |-> Trim(name.s), category |-> Trim(category.s),
     averageRating |-> Zero, totalReviews |-> 0,
     createdAt |-> now, updatedAt |-> now]

ItemPost(p, wide) ==
    /\ Arrives(p)
    /\ \/ IF \E name \in NameInputs(wide) : PostNameInvalid(name)
          THEN Reject(p, "itemPost", 400, "MISSING_NAME", 0, 0)
          ELSE FALSE
       \/ IF /\ \E name \in NameInputs(wide) : ~PostNameInvalid(name)
             /\ \E category \in CategoryInputs(wide) : PostNameInvalid(category)
          THEN Reject(p, "itemPost", 400, "MISSING_CATEGORY", 0, 0)
          ELSE FALSE
       \/ \E name \in {v \in NameInputs(wide) : ~PostNameInvalid(v)},
             category \in {v \in CategoryInputs(wide) : ~PostNameInvalid(v)} :
            /\ items' = (nextItemId :> NewItem(name, category)) @@ items
            /\ nextItemId' = nextItemId + 1
            /\ req' = Overlapped(p, IdleReq)
            /\ last' = Resp(p, "itemPost", 201, "", nextItemId, 0, NoneInFlight)
            /\ started' = started + 1
            /\ UNCHANGED <<reviews, nextReviewId, now, fkEnforced>>

\* Validation of the id, the lookup of the item, then the validation of the
\* supplied fields into `updates`.
ItemPut_Select(p, wide) ==
    /\ Arrives(p)
    /\ LET found == \E id \in IdInputs(wide) :
                       ~IdInvalid(id) /\ ~ItemMissing(parseInt(id).n)
           nameOk(name) == ~(name # Undefined /\ PutNameInvalid(name))
           categoryOk(category) == ~(category # Undefined /\ PutNameInvalid(category))
           averageOk(averageRating) ==
               ~(averageRating # Undefined /\ AverageRatingInvalid(averageRating))
           totalOk(totalReviews) ==
               ~(totalReviews # Undefined /\ TotalReviewsInvalid(totalReviews))
       IN
       \/ IF /\ \E id \in IdInputs(wide) : IdInvalid(id)
          THEN Reject(p, "itemPut", 400, "INVALID_ID", 0, 0)
          ELSE FALSE
       \/ \E id \in IdInputs(wide) :
            /\ ~IdInvalid(id)
            /\ ItemMissing(parseInt(id).n)
            /\ Reject(p, "itemPut", 404, "", parseInt(id).n, 0)
       \/ IF /\ found
             /\ \E name \in PutNameInputs(wide) : ~nameOk(name)
          THEN Reject(p, "itemPut", 400, "INVALID_NAME", 0, 0)
          ELSE FALSE
       \/ IF /\ found
             /\ \E name \in PutNameInputs(wide) : nameOk(name)
             /\ \E category \in PutCategoryInputs(wide) : ~categoryOk(category)
          THEN Reject(p, "itemPut", 400, "INVALID_CATEGORY", 0, 0)
          ELSE FALSE
       \/ IF /\ found
             /\ \E name \in PutNameInputs(wide) : nameOk(name)
             /\ \E category \in PutCategoryInputs(wide) : categoryOk(category)
             /\ \E averageRating \in AverageRatingInputs(wide) : ~averageOk(averageRating)
          THEN Reject(p, "itemPut", 400, "INVALID_RATING", 0, 0)
          ELSE FALSE
       \/ IF /\ found
             /\ \E name \in PutNameInputs(wide) : nameOk(name)
             /\ \E category \in PutCategoryInputs(wide) : categoryOk(category)
             /\ \E averageRating \in AverageRatingInputs(wide) : averageOk(averageRating)
             /\ \E totalReviews \in TotalReviewsInputs(wide) : ~totalOk(totalReviews)
          THEN Reject(p, "itemPut", 400, "INVALID_REVIEWS", 0, 0)
          ELSE FALSE
       \/ \E id \in {v \in IdInputs(wide) :
                        ~IdInvalid(v) /\ ~ItemMissing(parseInt(v).n)},
             name \in {v \in PutNameInputs(wide) : nameOk(v)},
             category \in {v \in PutCategoryInputs(wide) : categoryOk(v)},
             averageRating \in {v \in AverageRatingInputs(wide) : averageOk(v)},
             totalReviews \in {v \in TotalReviewsInputs(wide) : totalOk(v)} :
            /\ Accept(p, [IdleReq EXCEPT
                            !.kind = "itemPut", !.pc = "itemUpdate",
                            !.itemId = parseInt(id).n,
                            !.hasName = (name # Undefined),
                            !.name = IF name # Undefined
                                     THEN Trim(name.s) ELSE <<>>,
                            !.hasAverage = (averageRating # Undefined),
                            !.average = IF averageRating # Undefined
                                        THEN Frac(parseFloat(averageRating).n, 10)
                                        ELSE Zero,
                            !.hasTotal = (totalReviews # Undefined),
                            !.total = IF totalReviews # Undefined
                                      THEN parseInt(totalReviews).n ELSE 0,
                            !.ts = now])

\* The row `updates` makes of an item row.
ApplyItemUpdates(row, r) ==
    [row EXCEPT !.name = IF r.hasName THEN r.name ELSE @,
                !.averageRating = IF r.hasAverage THEN r.average ELSE @,
                !.totalReviews = IF r.hasTotal THEN r.total ELSE @,
                !.updatedAt = r.ts]

\* db.update(items).set(updates).where(eq(items.id, id)).returning()
ItemPut_Update(p) ==
    /\ req[p].pc = "itemUpdate"
    /\ items' = [i \in DOMAIN items |->
                    IF i = req[p].itemId
                    THEN ApplyItemUpdates(items[i], req[p])
                    ELSE items[i]]
    /\ \E status \in (IF ItemMissing(req[p].itemId) THEN {200, 500} ELSE {200}) :
          Return(p, status, "")
    /\ UNCHANGED <<reviews, nextItemId, nextReviewId, now, fkEnforced>>

\* db.delete(items).where(eq(items.id, id)).returning()
ItemDelete(p, wide) ==
    /\ Arrives(p)
    /\ \/ IF \E id \in IdInputs(wide) : IdInvalid(id)
          THEN Reject(p, "itemDelete", 400, "INVALID_ID", 0, 0)
          ELSE FALSE
       \/ \E id \in IdInputs(wide) :
            /\ ~IdInvalid(id)
            /\ IF ItemMissing(parseInt(id).n)
               THEN Reject(p, "itemDelete", 404, "", parseInt(id).n, 0)
               ELSE IF DeleteViolatesForeignKey(parseInt(id).n)
               THEN Reject(p, "itemDelete", 500, "", parseInt(id).n, 0)
               ELSE /\ items' = [i \in DOMAIN items \ {parseInt(id).n} |-> items[i]]
                    /\ req' = Overlapped(p, IdleReq)
                    /\ last' = Resp(p, "itemDelete", 200, "", parseInt(id).n, 0,
                                    NoneInFlight)
                    /\ started' = started + 1
                    /\ UNCHANGED <<reviews, nextItemId, nextReviewId, now, fkEnforced>>

(***************************************************************************)
(* A statement that the store fails: the await throws, the handler's catch *)
(* answers 500 with the message of the error.  (updateItemRating logs and  *)
(* rethrows.)  No statement runs in a transaction, so nothing is undone.   *)
(***************************************************************************)
StorageError == "storage error"

\* The failure, had the handler's statements been one transaction: the
\* review written by the handler is taken back.
StatementFailsRolledBack(p) ==
    /\ InFlight(p)
    /\ Return(p, 500, StorageError)
    /\ reviews' = [r \in DOMAIN reviews \ {req[p].reviewId} |-> reviews[r]]
    /\ UNCHANGED <<items, nextItemId, nextReviewId, now, fkEnforced>>

\* The failure, had the error been swallowed instead of thrown on: the
\* handler answers as if the statement had been executed.
StatementFailsSwallowed(p) ==
    /\ InFlight(p)
    /\ Return(p, 200, "")
    /\ UNCHANGED <<items, reviews, nextItemId, nextReviewId, now, fkEnforced>>

\* The statement handler p waits for throws.
StatementFails(p) ==
    /\ InFlight(p)
    /\ Return(p, 500, StorageError)
    /\ UNCHANGED <<items, reviews, nextItemId, nextReviewId, now, fkEnforced>>

\* The first statement of a review handler (its lookup) throws.
LookupFails(p) ==
    /\ Arrives(p)
    /\ \E kind \in {"create", "update", "delete"} :
          Reject(p, kind, 500, StorageError, 0, 0)

(***************************************************************************)
(* The clock read by `new Date()`.                                         *)
(***************************************************************************)
Tick ==
    /\ now < MaxTime
    /\ now' = now + 1
    /\ last' = NoResp
    /\ UNCHANGED <<items, reviews, nextItemId, nextReviewId, fkEnforced, req, started>>

(***************************************************************************)
(* The system: an empty store, no request yet.                             *)
(***************************************************************************)
Init ==
    /\ items = <<>>
    /\ reviews = <<>>
    /\ nextItemId = 1
    /\ nextReviewId = 1
    /\ now = 0
    /\ fkEnforced \in BOOLEAN
    /\ req = [p \in Procs |-> IdleReq]
    /\ started = 0
    /\ last = NoResp

\* The steps of the review handlers at their statements after the first.
ContinueReview(p) ==
    \/ ReviewPost_Insert(p)
    \/ ReviewPut_Update(p)
    \/ ReviewDelete_Delete(p)
    \/ UpdateItemRating_Select(p)
    \/ UpdateItemRating_Update(p)

\* Every handler of /api/reviews and /api/items, requests that follow the
\* contract.
Next ==
    \/ \E p \in Procs : ReviewPost_Lookup(p, FALSE)
    \/ \E p \in Procs : ReviewPut_Select(p, FALSE)
    \/ \E p \in Procs : ReviewDelete_Select(p, FALSE)
    \/ \E p \in Procs : ItemPost(p, FALSE)
    \/ \E p \in Procs : ItemPut_Select(p, FALSE)
    \/ \E p \in Procs : ItemDelete(p, FALSE)
    \/ \E p \in Procs : ContinueReview(p)
    \/ \E p \in Procs : ItemPut_Update(p)
    \/ Tick

Spec == Init /\ [][Next]_vars

\* Items are created and reviewed, never updated or deleted: the review
\* mutation handlers alone.  No statement can then violate the foreign key,
\* so one value of fkEnforced stands for both.
InitReviews == Init /\ fkEnforced = FALSE

NextReviews ==
    \/ \E p \in Procs : ItemPost(p, FALSE)
    \/ \E p \in Procs : ReviewPost_Lookup(p, FALSE)
    \/ \E p \in Procs : ReviewPut_Select(p, FALSE)
    \/ \E p \in Procs : ReviewDelete_Select(p, FALSE)
    \/ \E p \in Procs : ContinueReview(p)
    \/ Tick

SpecReviews == InitReviews /\ [][NextReviews]_vars

\* The review mutation handlers alone, any request: malformed and odd
\* values too.  The clock stands still: no validation reads it.
NextWide ==
    \/ \E p \in Procs : ItemPost(p, TRUE)
    \/ \E p \in Procs : ReviewPost_Lookup(p, TRUE)
    \/ \E p \in Procs : ReviewPut_Select(p, TRUE)
    \/ \E p \in Procs : ReviewDelete_Select(p, TRUE)
    \/ \E p \in Procs : ContinueReview(p)

SpecWide == InitReviews /\ [][NextWide]_vars

\* Items are created and reviews are created, nothing else.
NextCreates ==
    \/ \E p \in Procs : ItemPost(p, FALSE)
    \/ \E p \in Procs : ReviewPost_Lookup(p, FALSE)
    \/ \E p \in Procs : ReviewPost_Insert(p)
    \/ \E p \in Procs : UpdateItemRating_Select(p)
    \/ \E p \in Procs : UpdateItemRating_Update(p)
    \/ Tick

SpecCreates == InitReviews /\ [][NextCreates]_vars

\* A store that two POSTs of /api/items and one POST of /api/reviews have
\* left: items 1 and 2, and review 1 of item 1 with rating 5, aggregated.
SeededItems ==
    (1 :> [NewItem(Str(<<"n">>), Str(<<"c">>)) EXCEPT
             !.averageRating = AverageOf(5, 1), !.totalReviews = 1])
    @@ (2 :> NewItem(Str(<<"n">>), Str(<<"c">>)))

SeededReviews ==
    1 :> [itemId |-> 1, userId |-> <<"u">>, rating |-> 5, title |-> <<"t">>,
          comment |-> Null, createdAt |-> 0, updatedAt |-> 0]

InitSeeded ==
    /\ now = 0
    /\ items = SeededItems
    /\ reviews = SeededReviews
    /\ nextItemId = 3
    /\ nextReviewId = 2
    /\ fkEnforced = FALSE
    /\ req = [p \in Procs |-> IdleReq]
    /\ started = 0
    /\ last = NoResp

\* The review mutation handlers on that store; the clock stands still.
NextSeeded ==
    \/ \E p \in Procs : ReviewPost_Lookup(p, FALSE)
    \/ \E p \in Procs : ReviewPut_Select(p, FALSE)
    \/ \E p \in Procs : ReviewDelete_Select(p, FALSE)
    \/ \E p \in Procs : ContinueReview(p)

SpecSeeded == InitSeeded /\ [][NextSeeded]_vars

\* The review mutation handlers over a store whose statements may fail; the
\* clock stands still.
NextFaults ==
    \/ \E p \in Procs : ItemPost(p, FALSE)
    \/ \E p \in Procs : ReviewPost_Lookup(p, FALSE)
    \/ \E p \in Procs : ReviewPut_Select(p, FALSE)
    \/ \E p \in Procs : ReviewDelete_Select(p, FALSE)
    \/ \E p \in Procs : ContinueReview(p)
    \/ \E p \in Procs : StatementFails(p)
    \/ \E p \in Procs : LookupFails(p)

SpecFaults == InitReviews /\ [][NextFaults]_vars

\* The handlers in flight target items that differ from one another.
DistinctTargets ==
    \A p, q \in Procs :
        (p # q /\ InFlight(p) /\ InFlight(q)) => req[p].itemId # req[q].itemId

\* The review mutation handlers on the seeded store, when the clients never
\* have two mutations of one item running at a time; the clock stands still.
NextApart ==
    \/ \E p \in Procs : ReviewPost_Lookup(p, FALSE) /\ DistinctTargets'
    \/ \E p \in Procs : ReviewPut_Select(p, FALSE) /\ DistinctTargets'
    \/ \E p \in Procs : ReviewDelete_Select(p, FALSE) /\ DistinctTargets'
    \/ \E p \in Procs : ContinueReview(p)

SpecApart == InitSeeded /\ [][NextApart]_vars

\* Every handler of /api/items, any request, with the review mutation
\* handlers; the clock stands still.
NextItems ==
    \/ \E p \in Procs : ItemPost(p, TRUE)
    \/ \E p \in Procs : ItemPut_Select(p, TRUE)
    \/ \E p \in Procs : ItemPut_Update(p)
    \/ \E p \in Procs : ItemDelete(p, TRUE)
    \/ \E p \in Procs : ReviewPost_Lookup(p, FALSE)
    \/ \E p \in Procs : ReviewPut_Select(p, FALSE)
    \/ \E p \in Procs : ReviewDelete_Select(p, FALSE)
    \/ \E p \in Procs : ContinueReview(p)

SpecItems == Init /\ [][NextItems]_vars

\* The review mutation handlers on the seeded store, one request at a time
\* (a request arrives when the one before has been answered), over a store
\* whose statements may fail; the clock stands still.
NextRetry ==
    \/ \E p \in Procs : NoneInFlight /\ ReviewPost_Lookup(p, FALSE)
    \/ \E p \in Procs : NoneInFlight /\ ReviewPut_Select(p, FALSE)
    \/ \E p \in Procs : NoneInFlight /\ ReviewDelete_Select(p, FALSE)
    \/ \E p \in Procs : ContinueReview(p)
    \/ \E p \in Procs : StatementFails(p)

SpecRetry == InitSeeded /\ [][NextRetry]_vars

\* The review mutation handlers on the seeded store, one request at a time;
\* no statement fails and the clock stands still.
NextSequential ==
    \/ \E p \in Procs : NoneInFlight /\ ReviewPost_Lookup(p, FALSE)
    \/ \E p \in Procs : NoneInFlight /\ ReviewPut_Select(p, FALSE)
    \/ \E p \in Procs : NoneInFlight /\ ReviewDelete_Select(p, FALSE)
    \/ \E p \in Procs : ContinueReview(p)

SpecSequential == InitSeeded /\ [][NextSequential]_vars

\* The seeded store with both aggregates stale.  Item 1 carries 3.5 and 7,
\* which PUT /api/items wrote, over its one review.  Item 2 carries 2 and 1
\* and has no review: review 2 was created for it, updated to rating 2 and
\* deleted, and the recomputation of the Delete failed (or wrote before a
\* recomputation that had read earlier, a lost update).
StaleItems ==
    [SeededItems EXCEPT ![1].averageRating = Frac(35, 10),
                        ![1].totalReviews = 7,
                        ![2].averageRating = AverageOf(2, 1),
                        ![2].totalReviews = 1]

InitStale ==
    /\ now = 0
    /\ items = StaleItems
    /\ reviews = SeededReviews
    /\ nextItemId = 3
    /\ nextReviewId = 3
    /\ fkEnforced = FALSE
    /\ req = [p \in Procs |-> IdleReq]
    /\ started = 0
    /\ last = NoResp

\* The review mutation handlers on that store, when the clients never have
\* two mutations of one item running at a time; the clock stands still.
SpecStale == InitStale /\ [][NextApart]_vars

(***************************************************************************)
(* What the claims speak of.                                               *)
(***************************************************************************)
ReviewKinds == {"create", "update", "delete"}

Succeeded(resp) == resp.status \in {200, 201}

CountOf(i) == Cardinality(ReviewsOf(i))

\* The aggregate stored on item i is the mean (0 when there is none) and the
\* count of the reviews of i: averageRating * count = sum, as numbers.
Consistent(i) ==
    /\ items[i].totalReviews = CountOf(i)
    /\ IF CountOf(i) = 0
       THEN items[i].averageRating.num = 0
       ELSE items[i].averageRating.num * CountOf(i)
              = SumRatings(ReviewsOf(i)) * items[i].averageRating.den

\* A review mutation handler has just returned success for an item the store
\* holds.
JustSucceeded ==
    /\ last.kind \in ReviewKinds
    /\ Succeeded(last)
    /\ last.itemId \in DOMAIN items

(***************************************************************************)
(* C1  Invariant I1: at the instant a review Create, Update or Delete      *)
(* handler returns success, under any interleaving with other review       *)
(* handlers, the affected item's averageRating and totalReviews are the    *)
(* mean and the count of the reviews the item has at that instant.  Stated *)
(* for the handler that returns last, when no other is left in flight to   *)
(* repair the aggregate.                                                   *)
(***************************************************************************)
I1_AggregateConsistentAtCompletion ==
    (JustSucceeded /\ NoneInFlight) => Consistent(last.itemId)

(***************************************************************************)
(* C2  P1: once no review mutation is in flight, every item's              *)
(* averageRating is the mean of the ratings of its reviews (0 when it has  *)
(* none) and its totalReviews is their number.                             *)
(***************************************************************************)
P1_AggregateCorrectWhenSettled ==
    NoneInFlight => \A i \in DOMAIN items : Consistent(i)

\* Every review of item i has rating 5.
AllFives(i) == \A r \in ReviewsOf(i) : reviews[r].rating = 5

(***************************************************************************)
(* C3  P5: when N Creates, each with rating 5, have run against an item    *)
(* that had no review, in any interleaving, the item ends with             *)
(* totalReviews = N and averageRating = 5.                                 *)
(***************************************************************************)
P5_NoLostUpdate ==
    \A i \in DOMAIN items :
        (NoneInFlight /\ ReviewsOf(i) # {} /\ AllFives(i))
            => /\ items[i].totalReviews = CountOf(i)
               /\ items[i].averageRating = [num |-> 5, den |-> 1]

\* Handler p has read the reviews of its item and has not yet written the
\* aggregate.
InWindow(p) == req[p].pc = "write"

(***************************************************************************)
(* C4  Recomputation is serialized per item: no recomputation of an item   *)
(* reads the reviews between the read and the write of another             *)
(* recomputation of the same item.                                         *)
(***************************************************************************)
RecomputationSerialized ==
    \A p, q \in Procs :
        (p # q /\ InWindow(p) /\ InWindow(q)) => req[p].itemId # req[q].itemId

\* A Delete has just returned success, no other request was in flight while
\* it ran, and its item is left without a review.
DeletedLastReview ==
    /\ last.kind = "delete"
    /\ last.status = 200
    /\ last.solo
    /\ last.itemId \in DOMAIN items
    /\ ReviewsOf(last.itemId) = {}

(***************************************************************************)
(* C5  P2: when a successful Delete, with no other request in flight, has  *)
(* removed the last review of an item, the item's averageRating is exactly *)
(* 0 and its totalReviews exactly 0: the empty list is not divided by its  *)
(* length and nothing stale remains.                                       *)
(***************************************************************************)
P2_DeleteLastReviewResets ==
    DeletedLastReview
        => /\ items[last.itemId].averageRating = Zero
           /\ items[last.itemId].totalReviews = 0

\* The Delete of C5 has happened: the review it names was stored and is gone,
\* and the item is back at 0 and 0.
P2_Witness ==
    /\ DeletedLastReview
    /\ last.reviewId \notin DOMAIN reviews
    /\ last.reviewId < nextReviewId
    /\ items[last.itemId].averageRating = Zero

\* The ratings the contract allows, as body values.
AllowedRatings == {Num(10 * k) : k \in 1..5}

(***************************************************************************)
(* C6  P3: Create and Update reject every supplied rating that is not one  *)
(* of the integers 1..5 (out of bounds or not an integer) with             *)
(* INVALID_RATING and persist nothing for it: a Create or an Update that   *)
(* got past validation with a rating got there with one of 1, 2, 3, 4, 5.  *)
(***************************************************************************)
P3_RatingRangeEnforced ==
    \A p \in Procs :
        (InFlight(p) /\ req[p].kind \in {"create", "update"} /\ req[p].hasRating)
            => req[p].rawRating \in AllowedRatings

(***************************************************************************)
(* C7  Invariant I2: whatever ratings the requests carry, every review the *)
(* store holds has an integer rating in 1..5.                              *)
(***************************************************************************)
I2_StoredRatingInRange ==
    \A r \in DOMAIN reviews : reviews[r].rating \in 1..5

\* A review is stored whose rating came from a body that carried 4.5.
I2_Witness ==
    \E r \in DOMAIN reviews : reviews[r].rating = 4

(***************************************************************************)
(* C8  P4: a Create naming an item the store does not hold is answered 404 *)
(* and leaves the reviews and the items as they were; only a Create whose  *)
(* item was found goes on to the insert.                                   *)
(***************************************************************************)
P4_CreateForUnknownItemRejected ==
    [][ /\ (last'.kind = "create" /\ last'.status = 404)
            => /\ last'.itemId \notin DOMAIN items
               /\ UNCHANGED <<items, reviews, nextReviewId>>
        /\ \A p \in Procs :
              (req[p].pc = "idle" /\ req'[p].kind = "create" /\ req'[p].pc = "insert")
                  => req'[p].itemId \in DOMAIN items
      ]_vars

\* A Create has just been answered 404 while the store holds an item.
P4_Witness ==
    /\ last.kind = "create"
    /\ last.status = 404
    /\ last.itemId \notin DOMAIN items
    /\ DOMAIN items # {}

(***************************************************************************)
(* C9  Invariant I3: under any interleaving of review and item requests,   *)
(* every review the store holds names an item the store holds.             *)
(***************************************************************************)
I3_ReviewsReferenceExistingItems ==
    \A r \in DOMAIN reviews : reviews[r].itemId \in DOMAIN items

\* The request of handler p supplies comment and neither rating nor title.
CommentOnly(r) == r.hasComment /\ ~r.hasRating /\ ~r.hasTitle

\* This step is the update statement of the PUT of handler p, on a review the
\* store holds.
UpdatesReview(p) ==
    /\ req[p].kind = "update"
    /\ req[p].pc = "update"
    /\ req'[p].pc # "update"
    /\ req[p].reviewId \in DOMAIN reviews

(***************************************************************************)
(* C10  P6: an Update changes, among rating, title and comment, the fields *)
(* it supplies and no other, sets the review's updatedAt and leaves its    *)
(* itemId, userId and createdAt and every other review alone; an Update    *)
(* that supplies only comment returns at once, having left every item      *)
(* (averageRating, totalReviews, updatedAt) as it was.                     *)
(***************************************************************************)
P6_PartialUpdate ==
    [][ \A p \in Procs :
          UpdatesReview(p) =>
            LET r == req[p]
                old == reviews[r.reviewId]
                new == reviews'[r.reviewId]
            IN  /\ DOMAIN reviews' = DOMAIN reviews
                /\ \A o \in DOMAIN reviews \ {r.reviewId} : reviews'[o] = reviews[o]
                /\ new.rating = IF r.hasRating THEN r.rating ELSE old.rating
                /\ new.title = IF r.hasTitle THEN r.title ELSE old.title
                /\ new.comment = IF r.hasComment THEN r.comment ELSE old.comment
                /\ new.updatedAt = r.ts
                /\ new.itemId = old.itemId
                /\ new.userId = old.userId
                /\ new.createdAt = old.createdAt
                /\ items' = items
                /\ CommentOnly(r) => (req'[p].pc = "idle" /\ last'.proc = p)
      ]_vars

\* An Update that supplied only comment has just returned: the review has the
\* new comment, the title and the rating of its Create, and a later updatedAt.
P6_Witness ==
    /\ last.kind = "update"
    /\ last.status = 200
    /\ last.reviewId \in DOMAIN reviews
    /\ reviews[last.reviewId].comment = Str(<<"d">>)
    /\ reviews[last.reviewId].title = <<"t">>
    /\ reviews[last.reviewId].rating = 5
    /\ reviews[last.reviewId].updatedAt > reviews[last.reviewId].createdAt
    /\ Consistent(last.itemId)

\* Handler p has passed its validation in this step.
Accepted(p) == req[p].pc = "idle" /\ req'[p].pc # "idle"

(***************************************************************************)
(* C11  A request rejected by validation (400) writes nothing: the reviews *)
(* and the items (averageRating, totalReviews, updatedAt) are after the    *)
(* rejection what they were before it; and a request that validation lets *)
(* through carries a rating in 1..5 when it carries one, a title and a     *)
(* userId that are not blank when it carries them.                         *)
(***************************************************************************)
RejectedRequestWritesNothing ==
    [][ /\ last'.status = 400
            => UNCHANGED <<items, reviews, nextItemId, nextReviewId>>
        /\ \A p \in Procs :
              (Accepted(p) /\ req'[p].kind \in {"create", "update"})
                  => /\ req'[p].hasRating => req'[p].rating \in 1..5
                     /\ req'[p].hasTitle => req'[p].title # <<>>
                     /\ req'[p].kind = "create" => req'[p].userId # <<>>
      ]_vars

\* A Create has just been rejected with INVALID_RATING while the store holds
\* a review whose item is aggregated.
RejectedRequest_Witness ==
    /\ last.kind = "create"
    /\ last.status = 400
    /\ last.code = "INVALID_RATING"
    /\ \E i \in DOMAIN items : items[i].totalReviews = 1 /\ CountOf(i) = 1

\* Handler p returns in this step.
Returns(p) == InFlight(p) /\ req'[p].pc = "idle"

(***************************************************************************)
(* C12  A Delete whose row deletion found no review (another Delete of the *)
(* same id ran first) ends with 404, never with success or with an         *)
(* internal error; a Delete whose row deletion removed the review ends     *)
(* with success and returns the id of that review.                         *)
(***************************************************************************)
DeleteOfAbsentReviewIsNotFound ==
    [][ \A p \in Procs :
          (req[p].kind = "delete" /\ req[p].pc = "write" /\ Returns(p)) =>
              IF req[p].rows = 0
              THEN last'.status = 404
              ELSE last'.status = 200 /\ last'.reviewId = req[p].reviewId
      ]_vars

(***************************************************************************)
(* C13  A Create whose itemId is not a positive integer (zero, negative,   *)
(* not a number) is rejected with INVALID_ITEM_ID before the item lookup:  *)
(* every Create that gets as far as the lookup, whether it is then         *)
(* answered 404 or goes on to the insert, names a positive itemId.         *)
(***************************************************************************)
NonPositiveItemIdRejected ==
    /\ (last.kind = "create" /\ last.status # 400)
           => last.itemId >= 1
    /\ \A p \in Procs : req[p].kind = "create" => req[p].itemId >= 1

\* The recomputation of handler p fails in this step: its review write has
\* been executed, its select or its update of the item throws.
RecomputationFails(p) ==
    /\ req[p].pc \in {"select", "write"}
    /\ Returns(p)
    /\ last'.code = StorageError

(***************************************************************************)
(* C14  When the recomputation fails after the review write of the handler *)
(* has been committed, the review write is not taken back (the reviews are *)
(* after the failure what the write left) and the caller gets a result     *)
(* that is not a success.                                                  *)
(***************************************************************************)
RecomputationFailureKeepsReviewWrite ==
    [][ \A p \in Procs :
          RecomputationFails(p)
              => /\ reviews' = reviews
                 /\ last'.proc = p
                 /\ ~Succeeded(last')
      ]_vars

\* A Create has just been answered 500 because its recomputation failed: its
\* review is stored and the item does not count it.
RecomputationFailure_Witness ==
    /\ last.kind = "create"
    /\ last.status = 500
    /\ last.code = StorageError
    /\ last.reviewId \in DOMAIN reviews
    /\ last.itemId \in DOMAIN items
    /\ items[last.itemId].totalReviews = 0

\* This step is the write of a recomputation of item i.
RecomputationWrites(i) ==
    \E p \in Procs : req[p].pc = "write" /\ req[p].itemId = i /\ Returns(p)

(***************************************************************************)
(* C15  The aggregate of an item has a single writer: once the item is     *)
(* created, its averageRating and its totalReviews change only in the      *)
(* write of a recomputation (the item update writes other fields only),    *)
(* and the review rows change only in a step of a review mutation handler. *)
(***************************************************************************)
AggregateHasSingleWriter ==
    [][ /\ \A i \in DOMAIN items \cap DOMAIN items' :
              (\/ items'[i].averageRating # items[i].averageRating
               \/ items'[i].totalReviews # items[i].totalReviews)
                  => RecomputationWrites(i)
        /\ reviews' # reviews
              => \E p \in Procs :
                     req[p].kind \in ReviewKinds /\ req'[p].pc # req[p].pc
      ]_vars

\* This step is a step of a review mutation handler that targets item i.
ReviewHandlerSteps(i) ==
    \E p \in Procs :
        /\ req'[p].pc # req[p].pc
        /\ \/ req[p].kind \in ReviewKinds /\ req[p].itemId = i
           \/ req'[p].kind \in ReviewKinds /\ req'[p].itemId = i

\* No handler is in flight and every item carries the mean and the count
\* of its reviews, or some handler is in flight.
AllSettledConsistent ==
    NoneInFlight => \A i \in DOMAIN items : Consistent(i)

(***************************************************************************)
(* C16  Mutations of different items are independent: a step of a review   *)
(* mutation for item X changes the aggregate of no item but X; and when    *)
(* the mutations that run at the same time each target another item, then  *)
(* once all have completed every item's averageRating and totalReviews are *)
(* the mean and the count of its reviews, in every interleaving.           *)
(***************************************************************************)
DifferentItemsAreIndependent ==
    [][ /\ \A i \in DOMAIN items :
              items'[i] # items[i] => ReviewHandlerSteps(i)
        /\ AllSettledConsistent
        /\ AllSettledConsistent'
      ]_vars

\* Two mutations of different items have run at the same time and both have
\* completed: each item has one review, counted.
DifferentItems_Witness ==
    /\ NoneInFlight
    /\ last.kind \in ReviewKinds
    /\ ~last.solo
    /\ Succeeded(last)
    /\ \A i \in DOMAIN items : CountOf(i) = 1 /\ items[i].totalReviews = 1

(***************************************************************************)
(* C17  In every reachable state, after any sequence and interleaving of   *)
(* item and review operations, every item's averageRating lies in [0, 5]   *)
(* and its totalReviews is a non-negative integer.                         *)
(***************************************************************************)
AggregateInRange ==
    \A i \in DOMAIN items :
        /\ items[i].averageRating.den > 0
        /\ items[i].averageRating.num >= 0
        /\ items[i].averageRating.num <= 5 * items[i].averageRating.den
        /\ items[i].totalReviews \in Nat

\* An item update has set the aggregate of an item that has one review to
\* 3.5 and 7.
AggregateInRange_Witness ==
    \E i \in DOMAIN items :
        /\ items[i].averageRating = Frac(35, 10)
        /\ items[i].totalReviews = 7
        /\ CountOf(i) = 1

(***************************************************************************)
(* C18  An item that has just been created has averageRating 0 and         *)
(* totalReviews 0, whatever the body of the request, and no review: it     *)
(* carries the mean and the count of its reviews from its first state.     *)
(***************************************************************************)
NewItemStartsAtZero ==
    [][ \A i \in DOMAIN items' \ DOMAIN items :
          /\ items'[i].averageRating = Zero
          /\ items'[i].totalReviews = 0
          /\ \A r \in DOMAIN reviews' : reviews'[r].itemId # i
          /\ last'.kind = "itemPost"
          /\ last'.status = 201
          /\ last'.itemId = i
      ]_vars

\* An item has just been created in a store that holds a review of another
\* item.
NewItem_Witness ==
    /\ last.kind = "itemPost"
    /\ last.status = 201
    /\ last.itemId \in DOMAIN items
    /\ Consistent(last.itemId)
    /\ DOMAIN reviews # {}

\* The request of handler p is one that has to recompute: a Create, a
\* Delete, or an Update whose patch holds rating.
MustRecompute(r) ==
    r.kind \in {"create", "delete"} \/ (r.kind = "update" /\ r.hasRating)

(***************************************************************************)
(* C19  Each successful Create, each successful Delete and each successful *)
(* Update whose patch holds rating performs exactly one recomputation, of  *)
(* the item of its review and of no other, and answers when that           *)
(* recomputation has written; a successful Update whose patch omits rating *)
(* performs none.  In steps: a handler enters the recomputation from its   *)
(* review write only, leaves its read for its write only, and its write    *)
(* for its response; a success is answered from the write exactly when the *)
(* request has to recompute, and else from the review update.              *)
(***************************************************************************)
OneRecomputationPerMutation ==
    [][ \A p \in Procs :
          /\ (req'[p].pc = "select" /\ req[p].pc # "select")
                => /\ req[p].pc \in {"insert", "update", "delete"}
                   /\ MustRecompute(req[p])
                   /\ req'[p].itemId = req[p].itemId
          /\ (req[p].pc = "select" /\ req'[p].pc # "select")
                => /\ req'[p].pc = "write" \/ (Returns(p) /\ ~Succeeded(last'))
                   /\ req'[p].pc = "write"
                         => /\ req'[p].total = Cardinality(ReviewsOf(req[p].itemId))
                            /\ req'[p].itemId = req[p].itemId
                   /\ items' = items
          /\ (req[p].pc = "write" /\ req'[p].pc # "write")
                => /\ Returns(p)
                   /\ \A i \in DOMAIN items \ {req[p].itemId} : items'[i] = items[i]
          /\ (Returns(p) /\ req[p].kind \in ReviewKinds /\ Succeeded(last'))
                => IF MustRecompute(req[p])
                   THEN req[p].pc = "write"
                   ELSE req[p].pc = "update" /\ items' = items
      ]_vars

\* An Update whose patch holds rating 2 has just been answered 200, and the
\* item of its only review has the aggregate 2 and 1.
OneRecomputation_Witness ==
    /\ last.kind = "update"
    /\ last.status = 200
    /\ last.reviewId \in DOMAIN reviews
    /\ reviews[last.reviewId].rating = 2
    /\ last.itemId \in DOMAIN items
    /\ items[last.itemId].averageRating = Frac(2, 1)
    /\ items[last.itemId].totalReviews = 1

\* In this step the recomputation of handler p reads the reviews of its item.
ReadsPopulation(p) == req[p].pc = "select" /\ req'[p].pc = "write"

\* The review write of handler p wrote a row: an insert, or an update that
\* found its row.
WroteRow(r) == r.kind = "create" \/ (r.kind = "update" /\ r.rows = 1)

(***************************************************************************)
(* C20  Within one invocation the review write is committed before the     *)
(* recomputation reads the reviews: the set the recomputation reads always *)
(* holds the review the invocation inserted or updated, and never the      *)
(* review it deleted.                                                      *)
(***************************************************************************)
OwnWriteSeenByRecomputation ==
    [][ \A p \in Procs :
          ReadsPopulation(p) =>
              IF WroteRow(req[p])
              THEN req[p].reviewId \in ReviewsOf(req[p].itemId)
              ELSE req[p].reviewId \notin ReviewsOf(req[p].itemId)
      ]_vars

(***************************************************************************)
(* C20, amended  The recomputation of an invocation is entered from its    *)
(* review write, and the set it reads never holds the review the           *)
(* invocation deleted; it holds the review the invocation inserted or      *)
(* updated when no other request ran during the invocation, and in any     *)
(* case unless that review has been deleted since by another request.      *)
(***************************************************************************)
OwnWriteSeenUnlessDeletedSince ==
    [][ \A p \in Procs :
          /\ (req'[p].pc = "select" /\ req[p].pc # "select")
                => req[p].pc \in {"insert", "update", "delete"}
          /\ ReadsPopulation(p) =>
                IF WroteRow(req[p])
                THEN /\ req[p].solo => req[p].reviewId \in ReviewsOf(req[p].itemId)
                     /\ req[p].reviewId \in DOMAIN reviews
                           => req[p].reviewId \in ReviewsOf(req[p].itemId)
                ELSE req[p].reviewId \notin ReviewsOf(req[p].itemId)
      ]_vars

\* The recomputation of a Create that ran alone has read the reviews, its own
\* among them.
OwnWriteSeen_Witness ==
    \E p \in Procs :
        /\ req[p].kind = "create"
        /\ req[p].pc = "write"
        /\ req[p].solo
        /\ req[p].total = 1
        /\ req[p].reviewId \in ReviewsOf(req[p].itemId)

\* The mean of the ratings of the reviews of item i, 0 when it has none.
MeanOf(i) == AverageOf(SumRatings(ReviewsOf(i)), CountOf(i))

(***************************************************************************)
(* C21  A recomputation of an item, when no other handler that targets the *)
(* item is in flight, reads the reviews of that item and no other (what it *)
(* keeps is their count and the quotient of their sum by their count, not  *)
(* rounded, 0 when there is none), and its write leaves on the item        *)
(* exactly that count as totalReviews and that quotient as averageRating;  *)
(* the write changes averageRating, totalReviews and updatedAt of that     *)
(* item and nothing else in the store.                                     *)
(***************************************************************************)
RecomputationIsExact ==
    [][ \A p \in Procs :
          /\ ReadsPopulation(p)
                => /\ req'[p].total = CountOf(req[p].itemId)
                   /\ req'[p].average = MeanOf(req[p].itemId)
                   /\ UNCHANGED <<items, reviews>>
          /\ (req[p].pc = "write" /\ Returns(p))
                => LET i == req[p].itemId
                   IN  /\ reviews' = reviews
                       /\ DOMAIN items' = DOMAIN items
                       /\ \A j \in DOMAIN items \ {i} : items'[j] = items[j]
                       /\ i \in DOMAIN items
                             => /\ items'[i].totalReviews = CountOf(i)
                                /\ items'[i].averageRating = MeanOf(i)
                                /\ items'[i].updatedAt = req[p].ts
                                /\ items'[i].name = items[i].name
                                /\ items'[i].category = items[i].category
                                /\ items'[i].createdAt = items[i].createdAt
      ]_vars

\* A recomputation has just written 7 / 2 and 2 on an item whose reviews have
\* the ratings 5 and 2, while the other item has a review of its own.
RecomputationIsExact_Witness ==
    /\ last.kind \in ReviewKinds
    /\ Succeeded(last)
    /\ \E i \in DOMAIN items :
          /\ i = last.itemId
          /\ CountOf(i) = 2
          /\ SumRatings(ReviewsOf(i)) = 7
          /\ items[i].averageRating = [num |-> 7, den |-> 2]
          /\ items[i].totalReviews = 2

\* Handler p, of a review mutation that ran with no other request in flight,
\* answers success in this step, and the store holds its item.
CompletesAlone(p) ==
    /\ req[p].kind \in ReviewKinds
    /\ Returns(p)
    /\ Succeeded(last')
    /\ req[p].solo
    /\ req[p].itemId \in DOMAIN items

(***************************************************************************)
(* C22  A stale aggregate left by a failed recomputation lasts until the   *)
(* next successful review mutation of the item: when a Create, an Update   *)
(* or a Delete of a review of the item completes successfully, with no     *)
(* other request in flight, the item's averageRating and totalReviews are  *)
(* the mean and the count of its reviews.                                  *)
(***************************************************************************)
StaleUntilNextMutation ==
    [][ \A p \in Procs, i \in DOMAIN items :
          (CompletesAlone(p) /\ req[p].itemId = i) => Consistent(i)'
      ]_vars

(***************************************************************************)
(* C22, amended  The same of a Create, a Delete and an Update whose patch  *)
(* holds rating; a successful Update whose patch omits rating leaves the   *)
(* aggregate of the item as it found it, stale or not.                     *)
(***************************************************************************)
StaleUntilNextRecomputingMutation ==
    [][ \A p \in Procs, i \in DOMAIN items :
          (CompletesAlone(p) /\ req[p].itemId = i) =>
              IF MustRecompute(req[p])
              THEN Consistent(i)'
              ELSE items' = items
      ]_vars

\* An Update with rating 2 that runs alone has read the reviews of an item
\* whose only review was inserted by a Create whose recomputation failed:
\* the item still says 0 reviews, and the write of the Update comes next.
StaleUntilNext_Witness ==
    \E p \in Procs :
        /\ req[p].kind = "update"
        /\ req[p].pc = "write"
        /\ req[p].solo
        /\ req[p].total = 1
        /\ req[p].average = Frac(2, 1)
        /\ req[p].itemId \in DOMAIN items
        /\ CountOf(req[p].itemId) = 1
        /\ items[req[p].itemId].totalReviews = 0

\* The recomputation of handler p targets an item the store does not hold.
TargetsMissingItem(p) ==
    /\ req[p].pc \in {"select", "write"}
    /\ req[p].itemId \notin DOMAIN items

(***************************************************************************)
(* C23  A recomputation that targets an itemId for which the store holds   *)
(* no item (the item was deleted while a review of it remained, or while   *)
(* the mutation was in flight) raises no error: its read is followed by    *)
(* its write, its write matches no row, so that no item is created and no  *)
(* item is changed, and the review mutation that wrote its row answers     *)
(* with its success response.                                              *)
(***************************************************************************)
RecomputationOfMissingItemIsSilent ==
    [][ \A p \in Procs :
          (TargetsMissingItem(p) /\ req'[p].pc # req[p].pc)
              => /\ items' = items
                 /\ reviews' = reviews
                 /\ req[p].pc = "select" => req'[p].pc = "write"
                 /\ req[p].pc = "write"
                       => /\ Returns(p)
                          /\ last'.proc = p
                          /\ (req[p].kind = "create" \/ req[p].rows = 1)
                                => /\ Succeeded(last')
                                   /\ last'.status
                                         = IF req[p].kind = "create" THEN 201 ELSE 200
      ]_vars

\* A Create has just been answered 201 for an item that was deleted while the
\* Create was in flight: its review is stored, the item is not.
RecomputationOfMissingItem_Witness ==
    /\ last.kind = "create"
    /\ last.status = 201
    /\ last.itemId \notin DOMAIN items
    /\ last.itemId < nextItemId
    /\ last.reviewId \in DOMAIN reviews
    /\ reviews[last.reviewId].itemId = last.itemId

\* The recomputation of handler p writes the item in this step.
RecomputationWritesBy(p) ==
    /\ req[p].pc = "write"
    /\ Returns(p)
    /\ last'.code # StorageError

(***************************************************************************)
(* C24  Recomputation is idempotent and can be retried.  A recomputation   *)
(* that fails, at its read or at its write, leaves every item as it was;   *)
(* a recomputation that writes leaves on the item the mean and the count   *)
(* of the reviews of the item whatever the item carried before, be it what *)
(* a failed attempt left or what an earlier run wrote; so a run over       *)
(* reviews that have not changed since an earlier run leaves averageRating *)
(* and totalReviews as that run left them (updatedAt alone is written      *)
(* anew).  Requests run one at a time.                                     *)
(***************************************************************************)
RecomputationIsIdempotent ==
    [][ \A p \in Procs, i \in DOMAIN items :
          req[p].itemId = i =>
              /\ RecomputationFails(p) => items' = items
              /\ RecomputationWritesBy(p)
                    => /\ items'[i].totalReviews = CountOf(i)
                       /\ items'[i].averageRating = MeanOf(i)
                       /\ (/\ items[i].totalReviews = CountOf(i)
                           /\ items[i].averageRating = MeanOf(i))
                             => /\ items'[i].totalReviews = items[i].totalReviews
                                /\ items'[i].averageRating = items[i].averageRating
      ]_vars

\* A second Update with rating 2 of the seeded review is about to write its
\* recomputation: the item carries 2 and 1 from the recomputation of the
\* first, and the second has read the same.
RecomputationIsIdempotent_Witness ==
    \E p \in Procs :
        /\ req[p].kind = "update"
        /\ req[p].pc = "write"
        /\ req[p].itemId = 1
        /\ req[p].average = Frac(2, 1)
        /\ req[p].total = 1
        /\ items[1].averageRating = Frac(2, 1)
        /\ items[1].totalReviews = 1

\* This step is the review write of handler p (its insert, its update or its
\* delete).
WritesReview(p) ==
    /\ req[p].pc \in {"insert", "update", "delete"}
    /\ req'[p].pc # req[p].pc

\* What an incremental strategy adds to the running sum and to the running
\* count of the item for the mutation of handler p: + rating and + 1 for a
\* Create, + new - old and 0 for an Update (0 when the patch omits rating),
\* - rating and - 1 for a Delete.
SumDelta(p) ==
    CASE req[p].kind = "create" -> req[p].rating
      [] req[p].kind = "update" ->
            IF req[p].hasRating
            THEN req[p].rating - reviews[req[p].reviewId].rating
            ELSE 0
      [] OTHER -> 0 - reviews[req[p].reviewId].rating

CountDelta(p) ==
    CASE req[p].kind = "create" -> 1
      [] req[p].kind = "update" -> 0
      [] OTHER -> 0 - 1

(***************************************************************************)
(* C25  The full recomputation is equivalent to an incremental strategy,   *)
(* for requests that run one at a time.  The running sum and count start   *)
(* as the sum and count behind the stored aggregate (averageRating times   *)
(* totalReviews, and totalReviews); at the review write of each mutation   *)
(* the running values plus the increment of the mutation are the sum and   *)
(* the count of the ratings the item then has; and the recomputation that  *)
(* follows stores exactly that sum divided by that count, and that count:  *)
(* 0 and 0 exactly when the last review of the item has been deleted.      *)
(***************************************************************************)
EquivalentToIncremental ==
    [][ \A p \in Procs, i \in DOMAIN items :
          req[p].itemId = i =>
              /\ WritesReview(p)
                    => /\ items[i].totalReviews + CountDelta(p) = CountOf(i)'
                       /\ (SumRatings(ReviewsOf(i))' - SumDelta(p))
                              * items[i].averageRating.den
                           = items[i].averageRating.num * items[i].totalReviews
              /\ (req[p].pc = "write" /\ Returns(p))
                    => /\ Succeeded(last')
                       /\ items'[i].totalReviews = CountOf(i)
                       /\ items'[i].averageRating.num * CountOf(i)
                           = SumRatings(ReviewsOf(i)) * items'[i].averageRating.den
                       /\ CountOf(i) = 0 => items'[i].averageRating = Zero
      ]_vars

\* A Create, an Update with rating 2 of the seeded review and the Delete of
\* the created review have run one after the other: the item is at 2 and 1.
EquivalentToIncremental_Witness ==
    /\ last.kind = "delete"
    /\ last.status = 200
    /\ last.itemId = 1
    /\ nextReviewId = 3
    /\ ReviewsOf(1) = {1}
    /\ reviews[1].rating = 2
    /\ items[1].averageRating = Frac(2, 1)
    /\ items[1].totalReviews = 1

(***************************************************************************)
(* C26  Self-healing: whatever aggregate an item carries (the right one,   *)
(* or a stale one left by a lost update, by a failed recomputation or by   *)
(* an update of the item), when a Create, a Delete or an Update whose      *)
(* patch holds rating has run its review write, its read and its write of  *)
(* the item with no other request on that item in flight, and answers      *)
(* success, the item's averageRating and totalReviews are the mean and the *)
(* count of its reviews.                                                   *)
(***************************************************************************)
SelfHealing ==
    [][ \A p \in Procs, i \in DOMAIN items :
          /\ req[p].kind \in ReviewKinds
          /\ req[p].itemId = i
          /\ MustRecompute(req[p])
          /\ Returns(p)
          /\ Succeeded(last')
          => Consistent(i)'
      ]_vars

\* Item 1 still carries 3.5 and 7; a Create for item 1 has inserted its
\* review and read the two reviews of the item while a mutation of item 2
\* is in flight: its write of 5 and 2 comes next.
SelfHealing_Witness ==
    \E p, q \in Procs :
        /\ req[p].kind = "create"
        /\ req[p].pc = "write"
        /\ req[p].itemId = 1
        /\ req[p].total = 2
        /\ items[1].totalReviews = 7
        /\ InFlight(q)
        /\ req[q].itemId = 2

\* The rows this step adds to the reviews, and the rows it removes.
AddedReviews == DOMAIN reviews' \ DOMAIN reviews

RemovedReviews == DOMAIN reviews \ DOMAIN reviews'

\* What a step may do to the population and the identity of the reviews: the
\* rows added are one row, with the next id, added by the insert of a Create;
\* the rows removed are the row addressed, removed by the delete of a Delete;
\* the update of an Update adds no row and removes none, whether or not its
\* row is still there; and a row that stays keeps its itemId, its userId and
\* its createdAt (its id is its key).
PopulationFrame ==
    /\ AddedReviews # {}
          => /\ AddedReviews = {nextReviewId}
             /\ RemovedReviews = {}
             /\ \E p \in Procs :
                    /\ req[p].kind = "create"
                    /\ req[p].pc = "insert"
                    /\ req'[p].pc = "select"
                    /\ req'[p].reviewId = nextReviewId
    /\ RemovedReviews # {}
          => /\ AddedReviews = {}
             /\ \E p \in Procs :
                    /\ req[p].kind = "delete"
                    /\ req[p].pc = "delete"
                    /\ req'[p].pc = "select"
                    /\ RemovedReviews = {req[p].reviewId}
    /\ \A p \in Procs :
          (req[p].kind = "update" /\ req'[p].pc # req[p].pc)
              => DOMAIN reviews' = DOMAIN reviews
    /\ \A r \in DOMAIN reviews \cap DOMAIN reviews' :
          /\ reviews'[r].itemId = reviews[r].itemId
          /\ reviews'[r].userId = reviews[r].userId
          /\ reviews'[r].createdAt = reviews[r].createdAt

\* Handler p has executed its review write and the write changed the
\* population: the insert of a Create, or the delete of a Delete that found
\* its row.
ChangedPopulation(r) ==
    /\ r.pc \in {"select", "write"}
    /\ r.kind = "create" \/ (r.kind = "delete" /\ r.rows = 1)

(***************************************************************************)
(* C27  Population and identity of the reviews: only a successful Create   *)
(* adds a review row (exactly one) and only a successful Delete removes    *)
(* one (exactly the row addressed), so that a Create or a Delete that is   *)
(* not answered success has left the population as it was; an Update adds  *)
(* no row and removes none, even in a race with a Delete of its review,    *)
(* and no step changes the itemId, userId or createdAt of a review.        *)
(***************************************************************************)
ReviewPopulationAndIdentity ==
    [][ /\ PopulationFrame
        /\ \A p \in Procs :
              (Returns(p) /\ ~Succeeded(last')) => ~ChangedPopulation(req[p])
      ]_vars

(***************************************************************************)
(* C27, amended  The same of the rows added and removed, of the Update and *)
(* of the identity of a review; but the row of a Create is added, and the  *)
(* row of a Delete removed, by the review write, before the recomputation: *)
(* the handler then answers success, unless the recomputation fails, in    *)
(* which case it answers 500 and the row stays added or removed.  A Create *)
(* or a Delete answered success has changed the population by its one row. *)
(***************************************************************************)
ReviewPopulationByReviewWrite ==
    [][ /\ PopulationFrame
        /\ \A p \in Procs :
              /\ (Returns(p) /\ ~Succeeded(last') /\ ChangedPopulation(req[p]))
                    => /\ last'.status = 500
                       /\ last'.code = StorageError
                       /\ reviews' = reviews
              /\ (Returns(p) /\ Succeeded(last') /\ req[p].kind \in {"create", "delete"})
                    => ChangedPopulation(req[p])
      ]_vars

\* A Delete has just been answered 500 because its recomputation failed: the
\* review it addressed is gone and the item still counts it.
ReviewPopulation_Witness ==
    /\ last.kind = "delete"
    /\ last.status = 500
    /\ last.code = StorageError
    /\ last.reviewId \notin DOMAIN reviews
    /\ last.reviewId < nextReviewId
    /\ last.reviewId >= 1
    /\ last.itemId \in DOMAIN items
    /\ items[last.itemId].totalReviews = 1
    /\ CountOf(last.itemId) = 0

====
